---- MODULE Spec2Model ----
(***************************************************************************)
(* A model of artifice's detection scheme (src/artifice/mod.py):           *)
(*   - ProxyUNet construction: the tile geometry arithmetic and the shape  *)
(*     of the tensor as ProxyUNet.forward builds the hourglass network;    *)
(*   - ArtificeModel.evaluate: the loop that buffers predicted tiles,      *)
(*     detiles full images and accumulates error records;                  *)
(*   - ArtificeModel.train: the epoch loop around model.fit.               *)
(* Each of the three is a specification of its own over the same state.    *)
(***************************************************************************)
EXTENDS Integers, Sequences, FiniteSets, TLC

VARIABLES
  \* ---- ProxyUNet construction (mod.py 238-329)
  pc,                \* position of the constructor / static-method caller
  base_shape,        \* the base_shape argument as passed by the caller
  level_filters,     \* self.level_filters (only its length matters to the shapes)
  level_depth,       \* self.level_depth
  input_tile_shape,  \* self.input_tile_shape  (<<>> while unset)
  output_tile_shape, \* self.output_tile_shape (<<>> while unset)
  inputs,            \* spatial shape of the tensor `inputs` inside forward()
  level_outputs,     \* spatial shapes of the tensors appended to level_outputs
  level,             \* loop index i of forward()'s two loops
  croppings,         \* the ((top,bottom),(left,right)) handed to Cropping2D, in order
  ret,               \* what a direct call of a static method returned / raised
  overwrite,         \* self.overwrite
  checkpoint_file,   \* TRUE when a file exists at self.checkpoint_path
  weights,           \* where self.model's weights come from ("none": no model yet)
  crop_call,         \* a direct call of crop(): its arguments and what it did
  \* ---- ArtificeModel.evaluate (mod.py 191-226)
  epc,               \* position inside evaluate()
  eager,             \* tf.executing_eagerly()
  exception,         \* the call that raised inside evaluate() ("none": no exception)
  num_tiles,         \* art_data.num_tiles
  size,              \* art_data.size
  stream_len,        \* number of tiles evaluation_input() will yield in total
  consumed,          \* number of stream tiles read so far
  batches_read,      \* number of batches requested from evaluation_input()
  proxies,           \* the list `proxies` (a predicted tile is named by its stream index)
  tile_labels,       \* the list `tile_labels` (a label is named by its tile's stream index)
  errors,            \* the list `errors` (a record is named by its distance component)
  total_num_failed,  \* total_num_failed
  untile_calls,      \* arguments of the calls to art_data.untile, in order
  eval_calls,        \* labels handed to dat.evaluate_proxy, in order
  num_records,       \* number of error records dat.evaluate_proxy has returned
  broke,             \* TRUE when the for loop was left by `break`
  result,            \* what evaluate() returned (NoResult until it returns)
  \* ---- ArtificeModel.train (mod.py 164-189)
  tpc,               \* position inside train()
  initial_epoch,     \* the initial_epoch argument
  epochs,            \* the epochs argument
  epoch,             \* the local `epoch`
  fit_calls,         \* (initial_epoch, epochs) of the calls to model.fit, in order
  hist,              \* the local `hist`: the epochs whose metrics it holds, in order
  history_file,      \* the content of the file at history_path (NoFile: no such file)
  saved_model,       \* TRUE once self.save() ran
  train_ret,         \* what train() returned (NotReturned until it returns)
  \* ---- inpaint.annotation (utils/inpaint.py 46-61)
  ipc,               \* position of the caller of annotation()
  annotation_t,      \* the tensor `annotation`: entry -> [label, distance]
  annotation_before, \* the tensor as it was when annotation() was called
  inpaint_args       \* the indices and keyword arguments of the call

geomvars == <<pc, base_shape, level_filters, level_depth, input_tile_shape,
              output_tile_shape, inputs, level_outputs, level, croppings, ret,
              overwrite, checkpoint_file, weights, crop_call>>
evalvars == <<epc, eager, exception, num_tiles, size, stream_len, consumed, batches_read, proxies,
              tile_labels, errors, total_num_failed, untile_calls, eval_calls,
              num_records, broke, result>>
trainvars == <<tpc, initial_epoch, epochs, epoch, fit_calls, hist, history_file,
               saved_model, train_ret>>
inpaintvars == <<ipc, annotation_t, annotation_before, inpaint_args>>
vars == <<geomvars, evalvars, trainvars, inpaintvars>>

----------------------------------------------------------------------------
(* Bounds of the model.                                                    *)
MaxBase == 6
MaxLevels == 3
MaxDepth == 2
MaxStream == 6
MaxBatch == 3
MaxTiles == 3
MaxSize == 3
MaxObjects == 2
MaxCalls == 7
MaxEpochs == 3
MaxFitCalls == 4
MaxCropDim == 4
NumPixels == 2
MaxLabel == 1
MaxDist == 2

(* Program constants.                                                      *)
DefaultBgLabel == 0
KernelSize == 3
PoolSize == 2
UpStride == 2

----------------------------------------------------------------------------
(* Python / numpy values.                                                  *)
(* A base_shape argument is a single integer, a (height, width) list or    *)
(* tuple, or a numpy array of the two.                                     *)
IntArg(b) == [kind |-> "int", val |-> <<b>>]
SeqArg(h, w) == [kind |-> "seq", val |-> <<h, w>>]
ArrArg(h, w) == [kind |-> "array", val |-> <<h, w>>]
BaseShapeArgs ==
  {IntArg(b) : b \in 1..MaxBase}
  \cup {SeqArg(h, w) : h \in 1..MaxBase, w \in 1..MaxBase}
  \cup {ArrArg(h, w) : h \in 1..MaxBase, w \in 1..MaxBase}

Returned(v) == [raised |-> FALSE, val |-> v]
Raised == [raised |-> TRUE, val |-> <<>>]

(* np.asarray(x): like np.array(x), but an array argument is returned as   *)
(* it is, so the result shares the argument's storage.                     *)
NpAsArray(x) ==
  [ndim |-> IF x.kind = "int" THEN 0 ELSE 1, data |-> x.val,
   alias |-> x.kind = "array"]

(* np.array(x): a Python int becomes a 0-d array, a list/tuple a 1-d one;  *)
(* the data is always copied (copy=True), also from an array, so the       *)
(* result never shares storage with the argument.                          *)
NpArray(x) ==
  [ndim |-> IF x.kind = "int" THEN 0 ELSE 1, data |-> x.val, alias |-> FALSE]

(* The contents of the argument x once the working array a, made from x,   *)
(* has been updated in place.                                              *)
ArgAfter(x, a) == IF a.alias THEN a.data ELSE x.val
(* tile_shape *= k, tile_shape += k, tile_shape -= k (element-wise, int64; *)
(* the values of the model stay far below 2^63).                           *)
NpMul(a, k) == [a EXCEPT !.data = [j \in DOMAIN a.data |-> a.data[j] * k]]
NpAdd(a, k) == [a EXCEPT !.data = [j \in DOMAIN a.data |-> a.data[j] + k]]
NpSub(a, k) == [a EXCEPT !.data = [j \in DOMAIN a.data |-> a.data[j] - k]]
(* list(a): iterating a 0-d array raises TypeError.                        *)
PyList(a) == IF a.ndim = 0 THEN Raised ELSE Returned(a.data)

(* utils.listify(base_shape, 2): an integer becomes [b, b], a pair stays.  *)
listify(x) == IF x.kind = "int" THEN <<x.val[1], x.val[1]>> ELSE x.val

----------------------------------------------------------------------------
(* Tile geometry (static methods of ProxyUNet).                            *)
(* InputLoop growing the tile by level_depth instead of 2*level_depth.     *)
RECURSIVE InputLoopHalfMargin(_, _, _)
InputLoopHalfMargin(tile_shape, n, ld) ==
  IF n <= 0 THEN tile_shape
  ELSE InputLoopHalfMargin(NpAdd(NpMul(tile_shape, 2), ld), n - 1, ld)

RECURSIVE InputLoop(_, _, _)
InputLoop(tile_shape, n, ld) ==
  IF n <= 0 THEN tile_shape
  ELSE InputLoop(NpAdd(NpMul(tile_shape, 2), 2 * ld), n - 1, ld)

(* compute_input_tile_shape looping range(num_levels).                    *)
compute_input_tile_shape_AllLevels(bs, num_levels, ld) ==
  PyList(InputLoop(NpArray(bs), num_levels, ld))

(* mod.py 277-280: the working array tile_shape when the loop is done.     *)
InputWorkingShape(bs, num_levels, ld) ==
  InputLoop(NpArray(bs), num_levels - 1, ld)

compute_input_tile_shape(bs, num_levels, ld) ==
  PyList(InputWorkingShape(bs, num_levels, ld))

(* OutputLoop without the doubling.                                        *)
RECURSIVE OutputLoopNoDouble(_, _, _)
OutputLoopNoDouble(tile_shape, n, ld) ==
  IF n <= 0 THEN tile_shape
  ELSE OutputLoopNoDouble(NpSub(tile_shape, 2 * ld), n - 1, ld)

RECURSIVE OutputLoop(_, _, _)
OutputLoop(tile_shape, n, ld) ==
  IF n <= 0 THEN tile_shape
  ELSE OutputLoop(NpSub(NpMul(tile_shape, 2), 2 * ld), n - 1, ld)

(* mod.py 285-289: the working array tile_shape when the loop is done.     *)
OutputWorkingShape(bs, num_levels, ld) ==
  OutputLoop(NpSub(NpArray(bs), 2 * ld), num_levels - 1, ld)

compute_output_tile_shape(bs, num_levels, ld) ==
  PyList(OutputWorkingShape(bs, num_levels, ld))

----------------------------------------------------------------------------
(* Layers used by forward(), by their effect on the spatial shape.         *)
(* conv(): Conv2D with a 3x3 kernel and padding='valid' removes            *)
(* KernelSize - 1 pixels per dimension; keras rejects an input smaller     *)
(* than the kernel.                                                        *)
conv(shape) ==
  IF \E j \in DOMAIN shape : shape[j] < KernelSize THEN Raised
  ELSE Returned([j \in DOMAIN shape |-> shape[j] - (KernelSize - 1)])

(* for _ in range(level_depth): inputs = conv(inputs, filters)             *)
RECURSIVE ConvStack(_, _)
ConvStack(shape, n) ==
  IF n <= 0 THEN Returned(shape)
  ELSE LET c == conv(shape) IN IF c.raised THEN Raised ELSE ConvStack(c.val, n - 1)

(* keras.layers.MaxPool2D(): 2x2 pool, stride 2, 'valid': floor(s / 2).    *)
MaxPool2D(shape) ==
  IF \E j \in DOMAIN shape : shape[j] < PoolSize THEN Raised
  ELSE Returned([j \in DOMAIN shape |-> shape[j] \div PoolSize])

(* conv_transpose(): 2x2 kernel, strides (2,2), padding='same': s * 2.     *)
conv_transpose(shape) == [j \in DOMAIN shape |-> shape[j] * UpStride]

(* crop(inputs, shape): floor and ceil of half the difference, per axis.   *)
FloorHalf(d) == d \div 2
(* np.floor where np.ceil is meant.                                        *)
CeilHalfAsFloor(d) == d \div 2
CeilHalf(d) == -((-d) \div 2)
CropAmounts(from, to) ==
  <<FloorHalf(from[1] - to[1]), CeilHalf(from[1] - to[1]),
    FloorHalf(from[2] - to[2]), CeilHalf(from[2] - to[2])>>
crop(from, to) ==
  LET c == CropAmounts(from, to) IN
  IF \E j \in 1..4 : c[j] < 0 THEN Raised
  ELSE Returned(<<from[1] - c[1] - c[2], from[2] - c[3] - c[4]>>)

----------------------------------------------------------------------------
(* ProxyUNet.__init__ and the static methods called directly.              *)
NoCall == [fn |-> "none", bs |-> IntArg(0), nl |-> 0, ld |-> 0, out |-> Raised,
           arg_after |-> <<0>>]

NoResult == [returned |-> FALSE, errors |-> <<>>, total_num_failed |-> 0]

EvalIdle ==
  /\ epc = "idle"
  /\ eager = TRUE
  /\ exception = "none"
  /\ num_tiles = 0
  /\ size = 0
  /\ stream_len = 0
  /\ consumed = 0
  /\ batches_read = 0
  /\ proxies = <<>>
  /\ tile_labels = <<>>
  /\ errors = <<>>
  /\ total_num_failed = 0
  /\ untile_calls = <<>>
  /\ eval_calls = <<>>
  /\ num_records = 0
  /\ broke = FALSE
  /\ result = NoResult

(* A keyword argument: absent (kwargs.get gives the default) or given.     *)
Absent == [given |-> FALSE, val |-> 0]
Given(v) == [given |-> TRUE, val |-> v]
NoInpaintCall == [indices |-> {}, bg_label |-> Absent, bg_distance |-> Absent]

InpaintIdle ==
  /\ ipc = "idle"
  /\ annotation_t = <<>>
  /\ annotation_before = <<>>
  /\ inpaint_args = NoInpaintCall

NoFile == [exists |-> FALSE, content |-> <<>>]
File(c) == [exists |-> TRUE, content |-> c]
NotReturned == [returned |-> FALSE, hist |-> <<>>]

TrainIdle ==
  /\ tpc = "idle"
  /\ initial_epoch = 0
  /\ epochs = 0
  /\ epoch = 0
  /\ fit_calls = <<>>
  /\ hist = <<>>
  /\ history_file = NoFile
  /\ saved_model = FALSE
  /\ train_ret = NotReturned

NoCrop == [called |-> FALSE, from |-> <<>>, to |-> <<>>, cropping |-> <<>>,
           out |-> Raised]

GeomBlank ==
  /\ pc = "idle"
  /\ base_shape = IntArg(0)
  /\ level_filters = <<>>
  /\ level_depth = 0
  /\ input_tile_shape = <<>>
  /\ output_tile_shape = <<>>
  /\ inputs = <<>>
  /\ level_outputs = <<>>
  /\ level = 0
  /\ croppings = <<>>
  /\ ret = NoCall
  /\ overwrite = FALSE
  /\ weights = "none"
  /\ crop_call = NoCrop

GeomIdle == GeomBlank /\ checkpoint_file = FALSE

(* mod.py 253-264: the attributes, then super().__init__ enters forward()  *)
(* on Input(self.input_tile_shape + [num_channels]).                       *)
InitOutputTileShape(bs, nl, ld) == compute_input_tile_shape(bs, nl, ld)

Construct(bs, nl, ld, ov) ==
  /\ pc = "idle"
  /\ base_shape' = bs
  /\ level_filters' = [k \in 1..nl |-> k]
  /\ level_depth' = ld
  /\ LET inp == compute_input_tile_shape(bs, nl, ld)
         out == InitOutputTileShape(bs, nl, ld)
     IN IF inp.raised
        THEN /\ pc' = "raised"
             /\ UNCHANGED <<input_tile_shape, output_tile_shape, inputs, overwrite>>
        ELSE IF out.raised
        THEN /\ pc' = "raised"
             /\ input_tile_shape' = inp.val
             /\ UNCHANGED <<output_tile_shape, inputs, overwrite>>
        ELSE /\ pc' = "down"
             /\ input_tile_shape' = inp.val
             /\ output_tile_shape' = out.val
             /\ inputs' = inp.val
             /\ overwrite' = ov
  /\ UNCHANGED <<level_outputs, level, croppings, ret>>
  /\ UNCHANGED <<checkpoint_file, weights, crop_call>>
  /\ UNCHANGED <<evalvars, trainvars, inpaintvars>>

(* mod.py 311-316: one iteration of the first loop of forward().           *)
ForwardDown ==
  /\ pc = "down"
  /\ level < Len(level_filters)
  /\ LET c == ConvStack(inputs, level_depth) IN
     IF c.raised
     THEN /\ pc' = "raised"
          /\ UNCHANGED <<inputs, level_outputs, level>>
     ELSE IF level < Len(level_filters) - 1
     THEN LET p == MaxPool2D(c.val) IN
          IF p.raised
          THEN /\ pc' = "raised"
               /\ level_outputs' = Append(level_outputs, c.val)
               /\ UNCHANGED <<inputs, level>>
          ELSE /\ pc' = "down"
               /\ level_outputs' = Append(level_outputs, c.val)
               /\ inputs' = p.val
               /\ level' = level + 1
     ELSE /\ pc' = "up"
          /\ inputs' = c.val
          /\ level' = 0
          /\ UNCHANGED level_outputs
  /\ UNCHANGED <<base_shape, level_filters, level_depth, input_tile_shape,
                 output_tile_shape, croppings, ret>>
  /\ UNCHANGED <<overwrite, checkpoint_file, weights, crop_call>>
  /\ UNCHANGED <<evalvars, trainvars, inpaintvars>>

(* mod.py 318-325: one iteration of the second loop of forward().          *)
ForwardUp ==
  /\ pc = "up"
  /\ level < Len(level_filters) - 1
  /\ LET up == conv_transpose(inputs)
         skip == level_outputs[Len(level_outputs) - level]
         cropped == crop(skip, up)
     IN /\ croppings' = Append(croppings, CropAmounts(skip, up))
        /\ IF cropped.raised \/ cropped.val # up
           THEN /\ pc' = "raised"
                /\ UNCHANGED <<inputs, level>>
           ELSE LET c == ConvStack(up, level_depth) IN
                IF c.raised
                THEN /\ pc' = "raised"
                     /\ UNCHANGED <<inputs, level>>
                ELSE /\ pc' = "up"
                     /\ inputs' = c.val
                     /\ level' = level + 1
  /\ UNCHANGED <<base_shape, level_filters, level_depth, input_tile_shape,
                 output_tile_shape, level_outputs, ret>>
  /\ UNCHANGED <<overwrite, checkpoint_file, weights, crop_call>>
  /\ UNCHANGED <<evalvars, trainvars, inpaintvars>>

(* ArtificeModel.load_weights (mod.py 124-130): the checkpoint's weights   *)
(* replace the model's when the file exists.                               *)
load_weights(w, exists) == IF exists THEN "checkpoint" ELSE w

(* mod.py 100-104 without the test of self.overwrite.                      *)
InitWeightsIgnoringOverwrite(ov, exists) == load_weights("initial", exists)

(* mod.py 100-104: the compiled model has its initial weights;             *)
(* load_weights() is called unless self.overwrite.                         *)
InitWeights(ov, exists) ==
  IF ~ov THEN load_weights("initial", exists) ELSE "initial"

(* mod.py 327-329, then 100-104: the 1x1 'same' convolution keeps the      *)
(* shape; the keras Model is built and compiled, the checkpoint loaded.    *)
ForwardFinal ==
  /\ pc = "up"
  /\ level = Len(level_filters) - 1
  /\ pc' = "constructed"
  /\ weights' = InitWeights(overwrite, checkpoint_file)
  /\ UNCHANGED <<overwrite, checkpoint_file, crop_call>>
  /\ UNCHANGED <<base_shape, level_filters, level_depth, input_tile_shape,
                 output_tile_shape, inputs, level_outputs, level, croppings, ret>>
  /\ UNCHANGED <<evalvars, trainvars, inpaintvars>>

(* A direct call of the static method compute_input_tile_shape.            *)
CallComputeInput(bs, nl, ld) ==
  /\ pc = "idle"
  /\ pc' = "called"
  /\ ret' = [fn |-> "input", bs |-> bs, nl |-> nl, ld |-> ld,
             out |-> compute_input_tile_shape(bs, nl, ld),
             arg_after |-> ArgAfter(bs, InputWorkingShape(bs, nl, ld))]
  /\ UNCHANGED <<base_shape, level_filters, level_depth, input_tile_shape,
                 output_tile_shape, inputs, level_outputs, level, croppings>>
  /\ UNCHANGED <<overwrite, checkpoint_file, weights, crop_call>>
  /\ UNCHANGED <<evalvars, trainvars, inpaintvars>>

(* A direct call of the static method compute_output_tile_shape.           *)
CallComputeOutput(bs, nl, ld) ==
  /\ pc = "idle"
  /\ pc' = "called"
  /\ ret' = [fn |-> "output", bs |-> bs, nl |-> nl, ld |-> ld,
             out |-> compute_output_tile_shape(bs, nl, ld),
             arg_after |-> ArgAfter(bs, OutputWorkingShape(bs, nl, ld))]
  /\ UNCHANGED <<base_shape, level_filters, level_depth, input_tile_shape,
                 output_tile_shape, inputs, level_outputs, level, croppings>>
  /\ UNCHANGED <<overwrite, checkpoint_file, weights, crop_call>>
  /\ UNCHANGED <<evalvars, trainvars, inpaintvars>>

(* A direct call of crop(inputs, shape) on a tensor of spatial shape       *)
(* `from`, with a target of spatial shape `to` no larger than it.          *)
CallCrop(from, to) ==
  /\ pc = "idle"
  /\ to[1] <= from[1]
  /\ to[2] <= from[2]
  /\ pc' = "called"
  /\ crop_call' = [called |-> TRUE, from |-> from, to |-> to,
                   cropping |-> CropAmounts(from, to), out |-> crop(from, to)]
  /\ UNCHANGED <<base_shape, level_filters, level_depth, input_tile_shape,
                 output_tile_shape, inputs, level_outputs, level, croppings, ret,
                 overwrite, checkpoint_file, weights>>
  /\ UNCHANGED <<evalvars, trainvars, inpaintvars>>

CropShapes == {<<h, w>> : h \in 1..MaxCropDim, w \in 1..MaxCropDim}

InitGeometry ==
  GeomBlank /\ checkpoint_file \in BOOLEAN /\ EvalIdle /\ TrainIdle /\ InpaintIdle

NextGeometry ==
  \/ \E bs \in BaseShapeArgs, nl \in 1..MaxLevels, ld \in 1..MaxDepth, ov \in BOOLEAN :
       Construct(bs, nl, ld, ov)
  \/ ForwardDown
  \/ ForwardUp
  \/ ForwardFinal
  \/ \E bs \in BaseShapeArgs, nl \in 1..MaxLevels, ld \in 1..MaxDepth :
       CallComputeInput(bs, nl, ld)
  \/ \E bs \in BaseShapeArgs, nl \in 1..MaxLevels, ld \in 1..MaxDepth :
       CallComputeOutput(bs, nl, ld)
  \/ \E from \in CropShapes, to \in CropShapes : CallCrop(from, to)

SpecGeometry == InitGeometry /\ [][NextGeometry]_vars

----------------------------------------------------------------------------
(* Properties of the tile geometry, under SpecGeometry.                    *)
RECURSIVE Pow2(_)
Pow2(n) == IF n <= 0 THEN 1 ELSE 2 * Pow2(n - 1)

num_levels == Len(level_filters)
AttributesSet == pc \in {"down", "up", "constructed"}

(* C1: after construction, output_tile_shape equals                        *)
(* compute_output_tile_shape(base_shape, num_levels, level_depth).         *)
C1_OutputTileShapeAttribute ==
  pc = "constructed" =>
    Returned(output_tile_shape) =
      compute_output_tile_shape(base_shape, num_levels, level_depth)

(* C2: starting from compute_input_tile_shape, the shape changes of        *)
(* forward() end exactly at compute_output_tile_shape, and every tensor    *)
(* that is max-pooled (the ones kept in level_outputs) has even sides.     *)
C2_ForwardReproducesOutput ==
  /\ \A k \in DOMAIN level_outputs : \A j \in 1..2 : level_outputs[k][j] % 2 = 0
  /\ AttributesSet =>
       Returned(input_tile_shape) =
         compute_input_tile_shape(base_shape, num_levels, level_depth)
  /\ pc = "constructed" =>
       Returned(inputs) =
         compute_output_tile_shape(base_shape, num_levels, level_depth)

C2_Witness ==
  /\ pc = "constructed"
  /\ num_levels = MaxLevels
  /\ Len(level_outputs) = MaxLevels - 1
  /\ inputs[1] # inputs[2]

(* C3: compute_input_tile_shape returns, per dimension,                    *)
(* 2^(num_levels-1) * (b + 2*level_depth) - 2*level_depth, and base_shape  *)
(* itself when num_levels = 1 (base_shape a pair).                         *)
InputClosedForm(b, nl, ld) == Pow2(nl - 1) * (b + 2 * ld) - 2 * ld

C3_InputTileShapeFormula ==
  /\ (ret.fn = "input" /\ ret.bs.kind # "int") =>
       /\ ~ret.out.raised
       /\ ret.out.val = [j \in 1..2 |-> InputClosedForm(ret.bs.val[j], ret.nl, ret.ld)]
       /\ ret.nl = 1 => ret.out.val = ret.bs.val
  /\ (AttributesSet /\ base_shape.kind # "int") =>
       input_tile_shape =
         [j \in 1..2 |-> InputClosedForm(base_shape.val[j], num_levels, level_depth)]

C3_Witness ==
  /\ ret.fn = "input"
  /\ ret.bs.kind = "seq"
  /\ ret.nl = MaxLevels
  /\ ret.ld = MaxDepth
  /\ ret.out.val[1] # ret.out.val[2]

(* C4: compute_output_tile_shape returns, per dimension,                   *)
(* 2^(num_levels-1) * (b - 4*level_depth) + 2*level_depth, and             *)
(* b - 2*level_depth when num_levels = 1 (base_shape a pair).              *)
OutputClosedForm(b, nl, ld) == Pow2(nl - 1) * (b - 4 * ld) + 2 * ld

C4_OutputTileShapeFormula ==
  (ret.fn = "output" /\ ret.bs.kind # "int") =>
    /\ ~ret.out.raised
    /\ ret.out.val = [j \in 1..2 |-> OutputClosedForm(ret.bs.val[j], ret.nl, ret.ld)]
    /\ ret.nl = 1 => ret.out.val = [j \in 1..2 |-> ret.bs.val[j] - 2 * ret.ld]

C4_Witness ==
  /\ ret.fn = "output"
  /\ ret.bs.kind = "seq"
  /\ ret.nl = MaxLevels
  /\ ret.ld = MaxDepth
  /\ ret.out.val[1] # ret.out.val[2]

(* C5: the tile geometry calculation raises whenever a resulting dimension *)
(* is non-positive, so no shape with a dimension <= 0 is ever returned or  *)
(* held by a constructed ProxyUNet.                                        *)
AllPositive(shape) == \A j \in DOMAIN shape : shape[j] > 0

C5_NonPositiveRaises ==
  /\ (ret.fn # "none" /\ ~ret.out.raised) => AllPositive(ret.out.val)
  /\ AttributesSet => AllPositive(input_tile_shape) /\ AllPositive(output_tile_shape)

(* C10: construction with base_shape a single integer b succeeds and gives *)
(* the input_tile_shape of construction with base_shape = (b, b).          *)
C10_IntegerBaseShape ==
  (pc \notin {"idle", "called"} /\ base_shape.kind = "int") =>
    /\ AttributesSet
    /\ Returned(input_tile_shape) =
         compute_input_tile_shape(SeqArg(base_shape.val[1], base_shape.val[1]),
                                  num_levels, level_depth)

(* C11: during construction the checkpoint's weights are loaded if and     *)
(* only if overwrite is False and a file exists at checkpoint_path;        *)
(* otherwise the freshly compiled model is left as it is, without raising. *)
C11_CheckpointLoadedIffNotOverwrite ==
  /\ pc = "constructed" =>
       /\ weights = "checkpoint" <=> (~overwrite /\ checkpoint_file)
       /\ weights # "checkpoint" => weights = "initial"
  /\ pc # "constructed" => weights = "none"

C11_Witness ==
  /\ pc = "constructed"
  /\ overwrite
  /\ checkpoint_file
  /\ weights = "initial"

(* C12: compute_input_tile_shape and compute_output_tile_shape leave       *)
(* their base_shape argument (list, tuple or array) with the contents it   *)
(* had before the call, although the working shape is updated in place.    *)
C12_BaseShapeArgumentUnchanged ==
  ret.fn # "none" => ret.arg_after = ret.bs.val

C12_Witness ==
  /\ ret.fn = "output"
  /\ ret.bs.kind = "array"
  /\ ~ret.out.raised
  /\ ret.out.val # ret.bs.val
  /\ ret.arg_after = ret.bs.val

(* C17: for an input of spatial size (h, w) and a target (th, tw) with     *)
(* h >= th and w >= tw, crop removes top + bottom = h - th rows and        *)
(* left + right = w - tw columns, so the output has the target size; top   *)
(* and left are the floors, bottom and right the ceilings of half the      *)
(* difference, so the two sides differ by at most one.                     *)
SplitsInHalves(c, dh, dw) ==
  /\ c[1] + c[2] = dh
  /\ c[3] + c[4] = dw
  /\ c[1] >= 0 /\ c[2] - c[1] \in {0, 1}
  /\ c[3] >= 0 /\ c[4] - c[3] \in {0, 1}

C17_CropReachesTargetSize ==
  /\ crop_call.called =>
       /\ SplitsInHalves(crop_call.cropping,
                         crop_call.from[1] - crop_call.to[1],
                         crop_call.from[2] - crop_call.to[2])
       /\ crop_call.out = Returned(crop_call.to)
  /\ \A k \in DOMAIN croppings :
       SplitsInHalves(croppings[k], croppings[k][1] + croppings[k][2],
                      croppings[k][3] + croppings[k][4])

C17_Witness ==
  /\ crop_call.called
  /\ crop_call.cropping = <<1, 2, 1, 1>>
  /\ crop_call.out = Returned(crop_call.to)

----------------------------------------------------------------------------
(* ArtificeModel.evaluate (mod.py 191-226).                                *)
Min(a, b) == IF a < b THEN a ELSE b

(* s[:n] and del s[:n] on a Python list, n >= 0.                           *)
Slice(s, n) == SubSeq(s, 1, Min(n, Len(s)))
DelPrefixNone(s, n) == s
DelPrefixShort(s, n) == SubSeq(s, Min(IF n > 0 THEN n - 1 ELSE 0, Len(s)) + 1, Len(s))
DelPrefix(s, n) == SubSeq(s, Min(n, Len(s)) + 1, Len(s))

(* Stream tiles first..last, each named by its position in the stream.     *)
Tiles(first, last) == [k \in 1..(last - first + 1) |-> first + k - 1]

(* error without the filter: every row is kept.                            *)
NonNegativeRowsAll(error) == error

(* error[error[:, 0] >= 0]: the rows whose distance is non-negative.       *)
RECURSIVE NonNegativeRows(_)
NonNegativeRows(error) ==
  IF error = <<>> THEN <<>>
  ELSE IF Head(error) >= 0 THEN <<Head(error)>> \o NonNegativeRows(Tail(error))
  ELSE NonNegativeRows(Tail(error))

(* dat.evaluate_proxy(label, proxy): one record per label, a matched one   *)
(* with its distance (here 0) or an unmatched one with the negative        *)
(* sentinel (-1); num_failed counts the unmatched ones.                    *)
Sentinel == -1
ErrorArrays ==
  UNION {[1..n -> {Sentinel, 0}] : n \in 0..MaxObjects}
NumFailed(error) == Cardinality({k \in DOMAIN error : error[k] < 0})
evaluate_proxy_results ==
  {[error |-> e, num_failed |-> NumFailed(e)] : e \in ErrorArrays}

(* What one pass through the body of the while loop can meet.              *)
Outcomes ==
  {[kind |-> "untile_raises", error |-> <<>>, num_failed |-> 0],
   [kind |-> "evaluate_proxy_raises", error |-> <<>>, num_failed |-> 0]}
  \cup {[kind |-> "ok", error |-> r.error, num_failed |-> r.num_failed] :
          r \in evaluate_proxy_results}

(* The loop test with > in place of >=.                                    *)
WhileCondStrict(n, nt) == n > nt

(* mod.py 212: while len(proxies) >= art_data.num_tiles.                   *)
WhileCond(n, nt) == n >= nt

(* tile_labels[-1]: the label of the last buffered tile.                   *)
LastLabel(labels) == labels[Len(labels)]

(* mod.py 213: label = tile_labels[0], the label of the first buffered     *)
(* tile.                                                                   *)
FirstLabel(labels) == labels[1]

(* Where control is after a call inside evaluate() raised: there is no     *)
(* try/except, so the exception leaves evaluate().                         *)
AfterExceptionCaught == "while"
AfterException == "raised"

EvalStart ==
  /\ epc = "start"
  /\ eager \in BOOLEAN
  /\ exception = "none"
  /\ num_tiles \in 0..MaxTiles
  /\ size \in 1..MaxSize
  /\ stream_len \in 0..MaxStream
  /\ consumed = 0
  /\ batches_read = 0
  /\ proxies = <<>>
  /\ tile_labels = <<>>
  /\ errors = <<>>
  /\ total_num_failed = 0
  /\ untile_calls = <<>>
  /\ eval_calls = <<>>
  /\ num_records = 0
  /\ broke = FALSE
  /\ result = NoResult

(* mod.py 202-206 and 223-224.                                             *)
Enter ==
  /\ epc = "start"
  /\ IF eager
     THEN epc' = "for" /\ UNCHANGED exception
     ELSE epc' = AfterException /\ exception' = "NotImplementedError"
  /\ UNCHANGED <<eager, num_tiles, size, stream_len, consumed, batches_read,
                 proxies, tile_labels, errors, total_num_failed, untile_calls,
                 eval_calls, broke, result>>
  /\ UNCHANGED num_records
  /\ UNCHANGED <<geomvars, trainvars, inpaintvars>>

(* mod.py 207-211: the next batch of bs tiles is read and predicted.       *)
NextBatch(bs) ==
  /\ epc = "for"
  /\ consumed + bs <= stream_len
  /\ batches_read' = batches_read + 1
  /\ consumed' = consumed + bs
  /\ tile_labels' = tile_labels \o Tiles(consumed + 1, consumed + bs)
  /\ proxies' = proxies \o Tiles(consumed + 1, consumed + bs)
  /\ epc' = "while"
  /\ UNCHANGED <<eager, exception, num_tiles, size, stream_len, errors,
                 total_num_failed, untile_calls, eval_calls, broke, result>>
  /\ UNCHANGED num_records
  /\ UNCHANGED <<geomvars, trainvars, inpaintvars>>

(* mod.py 207, 222, 226: evaluation_input() is exhausted.                  *)
StreamEnd ==
  /\ epc = "for"
  /\ consumed = stream_len
  /\ epc' = "done"
  /\ result' = [returned |-> TRUE, errors |-> errors,
                total_num_failed |-> total_num_failed]
  /\ UNCHANGED <<eager, exception, num_tiles, size, stream_len, consumed,
                 batches_read, proxies, tile_labels, errors, total_num_failed,
                 untile_calls, eval_calls, broke>>
  /\ UNCHANGED num_records
  /\ UNCHANGED <<geomvars, trainvars, inpaintvars>>

(* mod.py 212-219: one pass through the body of the while loop.            *)
WhileIter(out) ==
  /\ epc = "while"
  /\ WhileCond(Len(proxies), num_tiles)
  /\ Len(untile_calls) < MaxCalls
  /\ IF tile_labels = <<>>
     THEN /\ epc' = AfterException
          /\ exception' = "IndexError"
          /\ UNCHANGED <<proxies, tile_labels, errors, total_num_failed,
                         untile_calls, eval_calls, num_records>>
     ELSE /\ untile_calls' = Append(untile_calls, Slice(proxies, num_tiles))
          /\ IF out.kind = "untile_raises"
             THEN /\ epc' = AfterException
                  /\ exception' = "untile"
                  /\ UNCHANGED <<proxies, tile_labels, errors, total_num_failed,
                                 eval_calls, num_records>>
             ELSE /\ eval_calls' = Append(eval_calls, FirstLabel(tile_labels))
                  /\ IF out.kind = "evaluate_proxy_raises"
                     THEN /\ epc' = AfterException
                          /\ exception' = "evaluate_proxy"
                          /\ UNCHANGED <<proxies, tile_labels, errors,
                                         total_num_failed, num_records>>
                     ELSE /\ num_records' = num_records + Len(out.error)
                          /\ total_num_failed' = total_num_failed + out.num_failed
                          /\ errors' = errors \o NonNegativeRows(out.error)
                          /\ tile_labels' = DelPrefix(tile_labels, num_tiles)
                          /\ proxies' = DelPrefix(proxies, num_tiles)
                          /\ epc' = "while"
                          /\ UNCHANGED exception
  /\ UNCHANGED <<eager, num_tiles, size, stream_len, consumed, batches_read,
                 broke, result>>
  /\ UNCHANGED <<geomvars, trainvars, inpaintvars>>

(* mod.py 212, 220-222, 226: the while loop is left; break when enough     *)
(* error records were collected, else back to the for loop.                *)
WhileExit ==
  /\ epc = "while"
  /\ ~WhileCond(Len(proxies), num_tiles)
  /\ IF Len(errors) >= size
     THEN /\ epc' = "done"
          /\ broke' = TRUE
          /\ result' = [returned |-> TRUE, errors |-> errors,
                        total_num_failed |-> total_num_failed]
     ELSE /\ epc' = "for"
          /\ UNCHANGED <<broke, result>>
  /\ UNCHANGED <<eager, exception, num_tiles, size, stream_len, consumed,
                 batches_read, proxies, tile_labels, errors, total_num_failed,
                 untile_calls, eval_calls>>
  /\ UNCHANGED num_records
  /\ UNCHANGED <<geomvars, trainvars, inpaintvars>>

InitEvaluate == GeomIdle /\ EvalStart /\ TrainIdle /\ InpaintIdle

NextEvaluate ==
  \/ Enter
  \/ \E bs \in 1..MaxBatch : NextBatch(bs)
  \/ StreamEnd
  \/ \E out \in Outcomes : WhileIter(out)
  \/ WhileExit

SpecEvaluate == InitEvaluate /\ [][NextEvaluate]_vars

----------------------------------------------------------------------------
(* Properties of evaluate(), under SpecEvaluate.                           *)

(* C6: with num_tiles = N >= 1, the k-th call to untile (k = 0, 1, ...)    *)
(* receives exactly the predictions of stream tiles k*N .. (k+1)*N - 1, in *)
(* stream order, whatever the batch sizes.                                 *)
C6_UntileReceivesConsecutiveImages ==
  num_tiles >= 1 =>
    \A k \in DOMAIN untile_calls :
      untile_calls[k] = Tiles((k - 1) * num_tiles + 1, k * num_tiles)

C6_Witness ==
  /\ num_tiles = 2
  /\ Len(untile_calls) = 2
  /\ batches_read = 2
  /\ Len(proxies) = 1
  /\ exception = "none"

(* C7: evaluate stops requesting batches exactly when the number of        *)
(* evaluated examples (images detiled and evaluated) has reached           *)
(* art_data.size: it never breaks before, and never reads a batch after.   *)
num_examples == Len(eval_calls)

C7_StopsAtExampleCount ==
  num_tiles >= 1 =>
    /\ (epc = "done" /\ broke) => num_examples >= size
    /\ (epc = "for" /\ consumed < stream_len) => num_examples < size

(* C8: when untile or evaluate_proxy raises, the exception leaves          *)
(* evaluate(): no result is returned, and from then on no batch is read,   *)
(* no tile is buffered and no further untile / evaluate_proxy call is made.*)
C8_ExceptionSurfaces ==
  [][/\ exception' # "none" => (epc' = "raised" /\ result' = NoResult)
     /\ exception # "none" => UNCHANGED evalvars]_vars

C8_Witness ==
  /\ exception = "evaluate_proxy"
  /\ epc = "raised"
  /\ Len(untile_calls) = 2
  /\ Len(proxies) > num_tiles
  /\ consumed < stream_len

(* C13: the label buffer and the proxy buffer have equal length at every   *)
(* loop boundary, and the label handed to evaluate_proxy with the k-th     *)
(* detiled proxy map (k = 0, 1, ...) is the label of stream tile           *)
(* k * num_tiles, the first tile of that same image.                       *)
C13_LabelBelongsToDetiledImage ==
  /\ Len(tile_labels) = Len(proxies)
  /\ tile_labels = proxies
  /\ \A k \in DOMAIN eval_calls :
       /\ eval_calls[k] = (k - 1) * num_tiles + 1
       /\ k <= Len(untile_calls)
       /\ num_tiles >= 1 => eval_calls[k] = untile_calls[k][1]

C13_Witness ==
  /\ num_tiles = 2
  /\ Len(eval_calls) = 3
  /\ eval_calls[3] = 5
  /\ batches_read = 2
  /\ exception = "none"

(* C14: with num_tiles >= 1, after each batch has been processed and when  *)
(* evaluate returns, fewer than num_tiles predicted tiles are buffered;    *)
(* the tiles left over at the end were never passed to untile and no error *)
(* is raised for them.                                                     *)
C14_LeftoverBelowNumTiles ==
  num_tiles >= 1 =>
    /\ epc \in {"for", "done"} => Len(proxies) < num_tiles
    /\ epc = "done" =>
         /\ result.returned
         /\ exception = "none"
         /\ Len(untile_calls) * num_tiles + Len(proxies) = consumed
         /\ \A i \in DOMAIN proxies : \A k \in DOMAIN untile_calls :
              \A j \in DOMAIN untile_calls[k] : untile_calls[k][j] # proxies[i]

C14_Witness ==
  /\ epc = "done"
  /\ ~broke
  /\ num_tiles = 3
  /\ Len(proxies) = 2
  /\ Len(untile_calls) = 1

(* What is left to do in evaluate(): the tiles still to be read (weighted  *)
(* so that reading them pays for buffering them), the buffered tiles, and  *)
(* the position. evaluate() terminates if every step lowers this natural   *)
(* number.                                                                 *)
Rank(p) == IF p \in {"start", "while"} THEN 2 ELSE IF p = "for" THEN 1 ELSE 0
Measure == 3 * (stream_len - consumed) + Len(proxies) + Rank(epc)

(* C15 as stated: for every num_tiles, 0 included, evaluate terminates:    *)
(* every pass through the while loop lowers the number of buffered tiles,  *)
(* and every step of evaluate lowers what is left to do.                   *)
C15_TerminatesForAnyNumTiles ==
  [][/\ Measure' < Measure
     /\ (epc = "while" /\ epc' = "while") => Len(proxies') < Len(proxies)]_vars

(* C15, amended: the same for every num_tiles >= 1.                        *)
C15_TerminatesForPositiveNumTiles ==
  /\ [](Measure >= 0)
  /\ [][num_tiles >= 1 =>
         /\ Measure' < Measure
         /\ (epc = "while" /\ epc' = "while") =>
              Len(proxies') = Len(proxies) - num_tiles]_vars

C15_Witness ==
  /\ num_tiles = 1
  /\ epc = "while"
  /\ batches_read = 1
  /\ Len(untile_calls) = 2
  /\ Len(proxies) = 1
  /\ exception = "none"

(* C16: the errors evaluate accumulates and returns hold no                *)
(* failed-detection sentinel: every record has a non-negative distance;    *)
(* the records with a negative distance are dropped, and counted in        *)
(* total_num_failed through evaluate_proxy's num_failed.                   *)
C16_NoSentinelInErrors ==
  /\ \A k \in DOMAIN errors : errors[k] >= 0
  /\ Len(errors) + total_num_failed = num_records
  /\ result.returned =>
       /\ result.errors = errors
       /\ result.total_num_failed = total_num_failed

C16_Witness ==
  /\ result.returned
  /\ Len(result.errors) >= 1
  /\ result.total_num_failed >= 2
  /\ Len(eval_calls) = 2

----------------------------------------------------------------------------
(* ArtificeModel.train (mod.py 164-189).                                   *)
(* The history of epochs 0 .. n-1, as an earlier run would have saved it.  *)
EpochsUpTo(n) == [k \in 1..n |-> k - 1]

(* utils.concat_dicts(hist, new_hist): per-key concatenation of the lists. *)
concat_dicts(a, b) == a \o b

TrainStart ==
  /\ tpc = "start"
  /\ initial_epoch \in 0..MaxEpochs
  /\ epochs \in 0..MaxEpochs
  /\ epoch = 0
  /\ fit_calls = <<>>
  /\ hist = <<>>
  /\ history_file \in {NoFile} \cup {File(EpochsUpTo(n)) : n \in 0..MaxEpochs}
  /\ saved_model = FALSE
  /\ train_ret = NotReturned

(* mod.py 174-179.                                                         *)
TrainEnter ==
  /\ tpc = "start"
  /\ hist' = IF initial_epoch > 0 /\ history_file.exists
             THEN history_file.content ELSE <<>>
  /\ epoch' = initial_epoch
  /\ tpc' = "loop"
  /\ UNCHANGED <<initial_epoch, epochs, fit_calls, history_file, saved_model,
                 train_ret>>
  /\ UNCHANGED <<geomvars, evalvars, inpaintvars>>

(* mod.py 180-186: one pass through the body of the while loop; model.fit  *)
(* trains the one epoch `epoch` and returns its history. The body does not *)
(* assign `epoch`.                                                         *)
Fit ==
  /\ tpc = "loop"
  /\ epoch # epochs
  /\ Len(fit_calls) < MaxFitCalls
  /\ fit_calls' = Append(fit_calls, [initial_epoch |-> epoch, epochs |-> epoch + 1])
  /\ hist' = concat_dicts(hist, <<epoch>>)
  /\ UNCHANGED <<tpc, initial_epoch, epochs, epoch, history_file, saved_model,
                 train_ret>>
  /\ UNCHANGED <<geomvars, evalvars, inpaintvars>>

(* mod.py 180, 187-189: the loop is left; history and model are saved.     *)
TrainReturn ==
  /\ tpc = "loop"
  /\ epoch = epochs
  /\ history_file' = File(hist)
  /\ saved_model' = TRUE
  /\ train_ret' = [returned |-> TRUE, hist |-> hist]
  /\ tpc' = "done"
  /\ UNCHANGED <<initial_epoch, epochs, epoch, fit_calls, hist>>
  /\ UNCHANGED <<geomvars, evalvars, inpaintvars>>

InitTrain == GeomIdle /\ EvalIdle /\ TrainStart /\ InpaintIdle

NextTrain ==
  \/ TrainEnter
  \/ Fit
  \/ TrainReturn

SpecTrain == InitTrain /\ [][NextTrain]_vars

(* C9: train called with 0 <= initial_epoch <= epochs makes exactly        *)
(* epochs - initial_epoch calls to model.fit, the k-th with                *)
(* initial_epoch = e and epochs = e + 1 for e = initial_epoch + k - 1,     *)
(* then saves the history and the model and returns the history.           *)
C9_TrainFitsEachEpochOnce ==
  (tpc \in {"loop", "done"} /\ initial_epoch <= epochs) =>
    /\ Len(fit_calls) <= epochs - initial_epoch
    /\ \A k \in DOMAIN fit_calls :
         fit_calls[k] = [initial_epoch |-> initial_epoch + k - 1,
                         epochs |-> initial_epoch + k]
    /\ tpc = "done" =>
         /\ Len(fit_calls) = epochs - initial_epoch
         /\ history_file = File(hist)
         /\ saved_model
         /\ train_ret = [returned |-> TRUE, hist |-> hist]

----------------------------------------------------------------------------
(* inpaint.annotation (utils/inpaint.py 46-61). The annotation tensor is   *)
(* a map from its entries to [label, distance] (channels 0 and 1).         *)
Entries == 1..NumPixels
Annotations == [Entries -> [label : 0..MaxLabel, distance : 0..MaxDist]]

(* kwargs.get(key, default)                                                *)
KwargsGet(kw, default) == IF kw.given THEN kw.val ELSE default

(* tf.reduce_max(annotation[:,:,:,1])                                      *)
ReduceMaxDistance(a) ==
  CHOOSE m \in {a[i].distance : i \in DOMAIN a} :
    \A i \in DOMAIN a : a[i].distance <= m

(* inpaint.py 50-60: the pair the indexed entries are filled with. When    *)
(* bg_distance is given, the distance is built from bg_semantic.           *)
Updates(a, bg_label, bg_distance) ==
  LET bg_semantic == KwargsGet(bg_label, DefaultBgLabel) IN
  [label |-> bg_semantic,
   distance |-> IF ~bg_distance.given THEN ReduceMaxDistance(a) ELSE bg_semantic]

(* tf.scatter_nd_update(annotation, indices, updates)                      *)
ScatterNdUpdate(a, indices, u) ==
  [i \in DOMAIN a |-> IF i \in indices THEN u ELSE a[i]]

InpaintStart ==
  /\ ipc = "start"
  /\ annotation_t \in Annotations
  /\ annotation_before = annotation_t
  /\ inpaint_args = NoInpaintCall

(* inpaint.py 46-61: annotation(annotation, indices, **kwargs)             *)
Annotation(indices, bg_label, bg_distance) ==
  /\ ipc = "start"
  /\ inpaint_args' = [indices |-> indices, bg_label |-> bg_label,
                      bg_distance |-> bg_distance]
  /\ annotation_t' =
       ScatterNdUpdate(annotation_t, indices,
                       Updates(annotation_t, bg_label, bg_distance))
  /\ ipc' = "done"
  /\ UNCHANGED annotation_before
  /\ UNCHANGED <<geomvars, evalvars, trainvars>>

InitInpaint == GeomIdle /\ EvalIdle /\ TrainIdle /\ InpaintStart

NextInpaint ==
  \E indices \in SUBSET Entries,
     bg_label \in {Absent} \cup {Given(v) : v \in 0..MaxLabel},
     bg_distance \in {Absent} \cup {Given(v) : v \in 0..MaxDist} :
    Annotation(indices, bg_label, bg_distance)

SpecInpaint == InitInpaint /\ [][NextInpaint]_vars

(* C18: annotation fills every indexed entry with [bg_label, d], where d   *)
(* is the maximum of the distance channel when bg_distance is omitted and  *)
(* the supplied bg_distance when it is given.                              *)
C18_AnnotationFillsBackground ==
  ipc = "done" =>
    \A i \in inpaint_args.indices :
      /\ annotation_t[i].label = KwargsGet(inpaint_args.bg_label, DefaultBgLabel)
      /\ annotation_t[i].distance =
           IF inpaint_args.bg_distance.given
           THEN inpaint_args.bg_distance.val
           ELSE ReduceMaxDistance(annotation_before)

====
